---- MODULE Spec2Model ----
(***************************************************************************)
(* A model of render_badged_icon.py: the atomic file writers               *)
(* (save_png_atomic, copy_file_atomic), the icon extraction and            *)
(* compositing pipeline (render_app_mode, render_control_mode) and the     *)
(* argument dispatch of main.                                              *)
(*                                                                         *)
(* Spec         one invocation of main(argv), run to its end.              *)
(* SpecWriters  several invocations inside their atomic writer, all on the *)
(*              same output path, with a concurrent reader of that path.   *)
(*                                                                         *)
(* The operating system, the external tools (sips, defaults) and the       *)
(* raster library are the environment: each call into them either succeeds *)
(* or fails, chosen nondeterministically at the step that makes the call.  *)
(***************************************************************************)
EXTENDS Integers, Sequences, FiniteSets, TLC

VARIABLES
    argv,       \* sys.argv of the invocation (1-based here, argv[1] is the script)
    HAS_PIL,    \* whether the raster library was imported
    pc,         \* position of the invocation in main / render_*_mode
    call,       \* arguments of the running render_app_mode call
    text,       \* render_control_mode's local `text`
    canvas,     \* the image being composed
    extracted,  \* what extract_app_icon_png left in <temp_dir>/app.png
    env,        \* what the environment answered so far (history)
    pend,       \* what render_app_mode leaves its `with` block with
    result,     \* how the invocation ended
    w,          \* per writer: the state of its save_png_atomic / copy_file_atomic call
    dir,        \* the destination directory: name -> inode
    inodes,     \* inode -> file content
    rd          \* the concurrent reader of the output path

vars == <<argv, HAS_PIL, pc, call, text, canvas, extracted, env, pend, result,
          w, dir, inodes, rd>>

mainVars == <<argv, HAS_PIL, pc, call, text, canvas, extracted, env, pend, result>>

----------------------------------------------------------------------------
(* Bounds of the model *)

NWriters == 2
FileChunks == 2
MaxExtraArgs == 1

(* Program constants *)

KEY_SIZE == 72

----------------------------------------------------------------------------
(* Strings.  TLC cannot take a string apart, so len() and upper() are       *)
(* tabulated over the strings the model uses.                               *)

Badges == {"", "1", "2", "3", "AB", "W", "ii", "10"}
Labels == {"", "HI", "HELLO"}
Roles == {"idle", "home", "page_prev", "page_next", "move_left", "move_right",
          "mode_back", "refresh", "selected_preview", "custom"}

len(s) ==
    CASE s = "" -> 0
      [] s \in {"1", "2", "3", "W", "<", ">", "R"} -> 1
      [] s \in {"AB", "ii", "10", "HI"} -> 2
      [] s = "APP" -> 3
      [] s \in {"BACK", "LEFT", "HOME", "IDLE"} -> 4
      [] s \in {"RIGHT", "HELLO"} -> 5
      [] s = "CUSTOM" -> 6

upper(s) ==
    CASE s = "home" -> "HOME"
      [] s = "idle" -> "IDLE"
      [] s = "custom" -> "CUSTOM"
      [] OTHER -> s

Max(a, b) == IF a >= b THEN a ELSE b

----------------------------------------------------------------------------
(* Images *)

NoBadge == [text |-> "", font |-> "", font_size |-> 0, text_w |-> 0, badge_w |-> 0, badge_h |-> 0,
            x0 |-> 0, y0 |-> 0, x1 |-> 0, y1 |-> 0, fill |-> <<0, 0, 0, 0>>]

NoGlyph == [kind |-> "none", text |-> "", font_size |-> 0, color |-> <<0, 0, 0, 0>>]

\* Image.new("RGBA", (KEY_SIZE, KEY_SIZE), (0, 0, 0, 255))
BlackCanvas ==
    [base |-> "black", width |-> KEY_SIZE, height |-> KEY_SIZE, ring |-> FALSE,
     badge |-> NoBadge, svg |-> FALSE, glyph |-> NoGlyph]

\* The PNG sips wrote from an icon container, before any compositing.
RawIcon(src) == [BlackCanvas EXCEPT !.base = src]

\* The file the output path holds before the invocation.
OrigImage == [BlackCanvas EXCEPT !.base = "original"]

----------------------------------------------------------------------------
(* The destination directory *)

Writers == 1..NWriters
OrigInode == 0
NoFile == -1
Inodes == {OrigInode} \cup Writers

OutName == <<"out", 0>>

\* A mutant of TempName: the "temporary" file is the output path itself.
TempNameInPlace(p) == OutName

\* NamedTemporaryFile(prefix=".<name>.", suffix=".tmp", dir=parent, delete=False):
\* a fresh name of the destination's directory, created with O_EXCL.
TempName(p) == <<"tmp", p>>

Names == {OutName} \cup {TempName(p) : p \in Writers}

EmptyFile == [owner |-> NoFile, img |-> BlackCanvas, n |-> 0]
OrigFile == [owner |-> OrigInode, img |-> OrigImage, n |-> FileChunks]

Complete(f) == f.n = FileChunks

\* os.replace(src, dst): one atomic rename; renaming a name onto itself changes nothing.
replace(d, src, dst) ==
    IF src = dst THEN d ELSE [d EXCEPT ![dst] = d[src], ![src] = NoFile]

\* Path.unlink()
unlink(d, name) == [d EXCEPT ![name] = NoFile]

----------------------------------------------------------------------------
(* The atomic file writers: save_png_atomic and copy_file_atomic.  The two  *)
(* functions differ only in the call that fills the temporary file          *)
(* (image.save / shutil.copyfile), so one set of steps models both; `kind`  *)
(* says which one runs.                                                     *)

WOff == [pc |-> "off", kind |-> "none", img |-> BlackCanvas, temp_file |-> FALSE,
         exc |-> "none", unlink_failed |-> FALSE, renamed |-> FALSE]

\* Entering save_png_atomic(image, output_path) / copy_file_atomic(source, output_path).
WCall(kind, img) == [WOff EXCEPT !.pc = "ensure_parent", !.kind = kind, !.img = img]

WDone(p) == w[p].pc \in {"returned", "raised"}

\* ensure_parent(output_path): mkdir(parents=True, exist_ok=True), outside the try.
ensure_parent(p) ==
    /\ w[p].pc = "ensure_parent"
    /\ \E ok \in BOOLEAN :
          w' = [w EXCEPT ![p].pc = IF ok THEN "mktemp" ELSE "raised",
                         ![p].exc = IF ok THEN "none" ELSE "mkdir"]
    /\ UNCHANGED <<mainVars, dir, inodes, rd>>

\* with tempfile.NamedTemporaryFile(...) as temp: temp_file = Path(temp.name)
mktemp(p) ==
    /\ w[p].pc = "mktemp"
    /\ \/ /\ dir' = [dir EXCEPT ![TempName(p)] = p]
          /\ inodes' = [inodes EXCEPT ![p] = [owner |-> p, img |-> w[p].img, n |-> 0]]
          /\ w' = [w EXCEPT ![p].pc = "write", ![p].temp_file = TRUE]
       \/ /\ w' = [w EXCEPT ![p].pc = "finally", ![p].exc = "mktemp"]
          /\ UNCHANGED <<dir, inodes>>
    /\ UNCHANGED <<mainVars, rd>>

\* image.save(temp_file, format="PNG") / shutil.copyfile(source, temp_file):
\* the file grows chunk by chunk, and the call may fail at any point.
write(p) ==
    /\ w[p].pc = "write"
    /\ LET ino == dir[TempName(p)]
       IN  \/ /\ inodes[ino].n < FileChunks
              /\ inodes' = [inodes EXCEPT ![ino].n = @ + 1]
              /\ w' = [w EXCEPT ![p].pc = IF inodes[ino].n + 1 = FileChunks
                                          THEN "replace" ELSE "write"]
           \/ /\ w' = [w EXCEPT ![p].pc = "finally",
                                ![p].exc = IF w[p].kind = "copy" THEN "copyfile" ELSE "save"]
              /\ UNCHANGED inodes
    /\ UNCHANGED <<mainVars, dir, rd>>

\* os.replace(temp_file, output_path)
os_replace(p) ==
    /\ w[p].pc = "replace"
    /\ \/ /\ dir' = replace(dir, TempName(p), OutName)
          /\ w' = [w EXCEPT ![p].pc = "finally", ![p].renamed = TRUE]
       \/ /\ w' = [w EXCEPT ![p].pc = "finally", ![p].exc = "replace"]
          /\ UNCHANGED dir
    /\ UNCHANGED <<mainVars, inodes, rd>>

\* The function's exit: it returns, or re-raises the exception of the try block.
WExit(p, unlink_failed) ==
    [w EXCEPT ![p].pc = IF w[p].exc = "none" THEN "returned" ELSE "raised",
              ![p].unlink_failed = unlink_failed]

\* A mutant of finally: the temporary file is never removed.
finally_without_unlink(p) ==
    /\ w[p].pc = "finally"
    /\ w' = WExit(p, FALSE)
    /\ UNCHANGED <<mainVars, dir, inodes, rd>>

\* A mutant of finally: the rename sits in the finally clause and also runs
\* after a failure.
finally_with_replace(p) ==
    /\ w[p].pc = "finally"
    /\ IF w[p].temp_file /\ dir[TempName(p)] # NoFile
       THEN dir' = replace(dir, TempName(p), OutName)
       ELSE UNCHANGED dir
    /\ w' = WExit(p, FALSE)
    /\ UNCHANGED <<mainVars, inodes, rd>>

\* finally: if temp_file and temp_file.exists(): try: temp_file.unlink()
\*          except Exception: pass
finally(p) ==
    /\ w[p].pc = "finally"
    /\ IF w[p].temp_file /\ dir[TempName(p)] # NoFile
       THEN \/ /\ dir' = unlink(dir, TempName(p))
               /\ w' = WExit(p, FALSE)
            \/ /\ UNCHANGED dir
               /\ w' = WExit(p, TRUE)
       ELSE /\ UNCHANGED dir
            /\ w' = WExit(p, FALSE)
    /\ UNCHANGED <<mainVars, inodes, rd>>

Writer(p) ==
    \/ ensure_parent(p)
    \/ mktemp(p)
    \/ write(p)
    \/ os_replace(p)
    \/ finally(p)

----------------------------------------------------------------------------
(* A reader of the output path (the host application loading the image):   *)
(* it opens the path, which binds it to the inode the name has at that     *)
(* moment, and reads that inode to its end.                                *)

RdClosed == [state |-> "closed", ino |-> NoFile, got |-> 0]

reader_open ==
    /\ rd.state \in {"closed", "done"}
    /\ dir[OutName] # NoFile
    /\ rd' = [state |-> "open", ino |-> dir[OutName], got |-> 0]
    /\ UNCHANGED <<mainVars, w, dir, inodes>>

reader_read ==
    /\ rd.state = "open"
    /\ inodes[rd.ino].n > rd.got
    /\ rd' = [rd EXCEPT !.got = @ + 1]
    /\ UNCHANGED <<mainVars, w, dir, inodes>>

reader_eof ==
    /\ rd.state = "open"
    /\ inodes[rd.ino].n = rd.got
    /\ rd' = [rd EXCEPT !.state = "done"]
    /\ UNCHANGED <<mainVars, w, dir, inodes>>

Reader == reader_open \/ reader_read \/ reader_eof

----------------------------------------------------------------------------
(* The file system before the invocation(s): the output path holds a       *)
(* complete file, or nothing.                                              *)

InitFiles ==
    /\ dir \in {[n \in Names |-> IF n = OutName THEN o ELSE NoFile] : o \in {OrigInode, NoFile}}
    /\ inodes = [i \in Inodes |-> IF i = OrigInode THEN OrigFile ELSE EmptyFile]
    /\ rd = RdClosed

NoEnv == [bundle |-> "untried", generic |-> "untried", svg |-> "untried",
          paste |-> "untried", had_out |-> FALSE]
NoCall == [app_path |-> "", badge |-> "", selected |-> FALSE]
NoPend == [status |-> -1, exc |-> "none"]
Running == [outcome |-> "running", status |-> -1, exc |-> "none"]

\* Several invocations have reached their atomic writer, each with a finished
\* image (save_png_atomic) or an extracted icon (copy_file_atomic).
InitWriters ==
    /\ InitFiles
    /\ argv = <<>>
    /\ HAS_PIL = TRUE
    /\ pc = "detached"
    /\ call = NoCall
    /\ text = ""
    /\ canvas = BlackCanvas
    /\ extracted = "none"
    /\ env = [NoEnv EXCEPT !.had_out = dir[OutName] # NoFile]
    /\ pend = NoPend
    /\ result = Running
    /\ w \in [Writers -> {WCall("save", BlackCanvas), WCall("copy", RawIcon("generic"))}]

NextWriters ==
    \/ \E p \in Writers : Writer(p)
    \/ Reader

SpecWriters == InitWriters /\ [][NextWriters]_vars

----------------------------------------------------------------------------
(* Text measurement.  draw.textbbox is the raster library's; the model      *)
(* measures a text as the sum of its glyphs' advances in the font the code  *)
(* asks for (Arial Bold, advances in 1/1000 em, scaled by the font size),   *)
(* or, when that font cannot be loaded, in the built-in default font, whose *)
(* glyphs are 6 pixels wide whatever the size asked for.                    *)

Fonts == {"Arial Bold", "default"}

Advance(s) ==
    CASE s \in {"1", "2", "3"} -> 556
      [] s = "10" -> 1112
      [] s = "AB" -> 1444
      [] s = "W" -> 944
      [] s = "ii" -> 556

textbbox_w(s, font, font_size) ==
    IF font = "Arial Bold" THEN (Advance(s) * font_size) \div 1000 ELSE 6 * len(s)

\* A mutant of badge_width: the box is not held to its minimum width.
badge_width_unclamped(text_w) == text_w + 10

\* badge_w = max(18, text_w + 10)
badge_width(text_w) == Max(18, text_w + 10)

\* font_size = 11 if len(badge) == 1 else 9
badge_font_size(badge) == IF len(badge) = 1 THEN 11 ELSE 9

badge_fill(badge) ==
    CASE badge = "1" -> <<21, 108, 196, 245>>
      [] badge = "2" -> <<0, 138, 98, 245>>
      [] OTHER -> <<23, 130, 153, 245>>

draw_badge(image, badge, font) ==
    IF badge = "" THEN image
    ELSE LET font_size == badge_font_size(badge)
             text_w == textbbox_w(badge, font, font_size)
             badge_w == badge_width(text_w)
             badge_h == 18
             x1 == KEY_SIZE - 4
             x0 == x1 - badge_w
             y0 == 4
             y1 == y0 + badge_h
         IN  [image EXCEPT !.badge =
                 [text |-> badge, font |-> font, font_size |-> font_size, text_w |-> text_w,
                  badge_w |-> badge_w, badge_h |-> badge_h,
                  x0 |-> x0, y0 |-> y0, x1 |-> x1, y1 |-> y1, fill |-> badge_fill(badge)]]

----------------------------------------------------------------------------
(* Control roles *)

CONTROL_ICON_FILES ==
    ("home" :> "IconHome-White.svg") @@ ("page_prev" :> "IconChevronsLeft-White.svg")
    @@ ("page_next" :> "IconChevronsRight-White.svg")
    @@ ("move_left" :> "IconChevronLeft-White.svg")
    @@ ("move_right" :> "IconChevronRight-White.svg")
    @@ ("mode_back" :> "IconUndo-White.svg") @@ ("refresh" :> "IconRefresh-White.svg")

default_control_label(role) ==
    CASE role = "page_prev" -> "<"
      [] role = "page_next" -> ">"
      [] role = "refresh" -> "R"
      [] role = "mode_back" -> "BACK"
      [] role = "move_left" -> "LEFT"
      [] role = "move_right" -> "RIGHT"
      [] role = "selected_preview" -> "APP"
      [] OTHER -> upper(role)

White == <<255, 255, 255, 255>>

\* The roles render_control_mode has a procedural glyph for.
GlyphRoles == {"page_prev", "page_next", "move_left", "move_right", "mode_back", "refresh"}

\* The procedural fallback of render_control_mode: a glyph by role, else the text.
draw_fallback(image, role, txt) ==
    LET glyph(kind) == [kind |-> kind, text |-> "", font_size |-> 0, color |-> White]
    IN  [image EXCEPT !.glyph =
            CASE role = "page_prev" -> glyph("arrow_left")
              [] role = "page_next" -> glyph("arrow_right")
              [] role = "move_left" -> glyph("arrow_left")
              [] role = "move_right" -> glyph("arrow_right")
              [] role = "mode_back" -> glyph("back")
              [] role = "refresh" -> glyph("refresh")
              [] OTHER -> [kind |-> "text", text |-> txt,
                           font_size |-> IF len(txt) <= 4 THEN 18 ELSE 14,
                           color |-> White]]

----------------------------------------------------------------------------
(* One invocation: main(argv) *)

MainWriter == 1

AppArgv == {<<"prog", "app", "/Applications/Foo.app", b, s, "out.png">> :
                b \in Badges, s \in {"0", "1"}}
ControlArgv == {<<"prog", "control", r, l, "out.png">> : r \in Roles, l \in Labels}
OtherArgv == {<<"prog", "render", "idle", "", "out.png">>,
              <<"prog", "render", "/Applications/Foo.app", "1", "1", "out.png">>}
FullArgv == AppArgv \cup ControlArgv \cup OtherArgv

Extra(k) == [i \in 1..k |-> "extra"]

ArgvSet ==
    {a \o Extra(k) : a \in FullArgv, k \in 0..MaxExtraArgs}
    \cup {SubSeq(a, 1, n) : a \in FullArgv, n \in 1..5}

Return(k) == [outcome |-> "returned", status |-> k, exc |-> "none"]
Raise(e) == [outcome |-> "raised", status |-> -1, exc |-> e]

Init ==
    /\ InitFiles
    /\ argv \in ArgvSet
    /\ HAS_PIL \in BOOLEAN
    /\ pc = "main"
    /\ call = NoCall
    /\ text = ""
    /\ canvas = BlackCanvas
    /\ extracted = "none"
    /\ env = [NoEnv EXCEPT !.had_out = dir[OutName] # NoFile]
    /\ pend = NoPend
    /\ result = Running
    /\ w = [p \in Writers |-> WOff]

\* A mutant of main: both argument counts are checked one too low.
main_off_by_one ==
    /\ pc = "main"
    /\ IF Len(argv) < 2
       THEN /\ pc' = "done"
            /\ result' = Return(1)
            /\ UNCHANGED call
       ELSE IF argv[2] = "app"
       THEN IF Len(argv) < 5
            THEN /\ pc' = "done"
                 /\ result' = Return(1)
                 /\ UNCHANGED call
            ELSE /\ call' = [app_path |-> argv[3], badge |-> argv[4],
                             selected |-> (argv[5] = "1")]
                 /\ pc' = "app_mkdtemp"
                 /\ UNCHANGED result
       ELSE IF argv[2] = "control"
       THEN IF Len(argv) < 4
            THEN /\ pc' = "done"
                 /\ result' = Return(1)
                 /\ UNCHANGED call
            ELSE /\ pc' = "ctl_enter"
                 /\ UNCHANGED <<call, result>>
       ELSE /\ pc' = "done"
            /\ result' = Return(1)
            /\ UNCHANGED call
    /\ UNCHANGED <<argv, HAS_PIL, text, canvas, extracted, env, pend, w, dir, inodes, rd>>

main ==
    /\ pc = "main"
    /\ IF Len(argv) < 2
       THEN /\ pc' = "done"
            /\ result' = Return(1)
            /\ UNCHANGED call
       ELSE IF argv[2] = "app"
       THEN IF Len(argv) < 6
            THEN /\ pc' = "done"
                 /\ result' = Return(1)
                 /\ UNCHANGED call
            ELSE /\ call' = [app_path |-> argv[3], badge |-> argv[4],
                             selected |-> (argv[5] = "1")]
                 /\ pc' = "app_mkdtemp"
                 /\ UNCHANGED result
       ELSE IF argv[2] = "control"
       THEN IF Len(argv) < 5
            THEN /\ pc' = "done"
                 /\ result' = Return(1)
                 /\ UNCHANGED call
            ELSE /\ pc' = "ctl_enter"
                 /\ UNCHANGED <<call, result>>
       ELSE /\ pc' = "done"
            /\ result' = Return(1)
            /\ UNCHANGED call
    /\ UNCHANGED <<argv, HAS_PIL, text, canvas, extracted, env, pend, w, dir, inodes, rd>>

----------------------------------------------------------------------------
(* render_app_mode(app_path, badge, selected, output_path) *)

\* with tempfile.TemporaryDirectory(prefix="wc-icon-") as temp_dir:
app_mkdtemp ==
    /\ pc = "app_mkdtemp"
    /\ \/ /\ pc' = "extract_bundle"
          /\ UNCHANGED result
       \/ /\ pc' = "done"
          /\ result' = Raise("mkdtemp")
    /\ UNCHANGED <<argv, HAS_PIL, call, text, canvas, extracted, env, pend, w, dir, inodes, rd>>

\* extract_app_icon_png, first half: the bundle's own icon.  "no_bundle": the path
\* is no directory; "no_icns": resolve_app_icon_icns found no icon file;
\* "sips_failed": run_command raised, which the code passes over.
extract_bundle ==
    /\ pc = "extract_bundle"
    /\ \E r \in {"no_bundle", "no_icns", "sips_failed", "ok"} :
          /\ env' = [env EXCEPT !.bundle = r]
          /\ IF r = "ok"
             THEN /\ extracted' = "bundle"
                  /\ pc' = "app_extracted"
             ELSE /\ pc' = "extract_generic"
                  /\ UNCHANGED extracted
    /\ UNCHANGED <<argv, HAS_PIL, call, text, canvas, pend, result, w, dir, inodes, rd>>

\* extract_app_icon_png, second half: the generic application icon of CoreTypes.
\* When it fails too, render_app_mode returns 2.
extract_generic ==
    /\ pc = "extract_generic"
    /\ \E r \in {"missing", "sips_failed", "ok"} :
          /\ env' = [env EXCEPT !.generic = r]
          /\ IF r = "ok"
             THEN /\ extracted' = "generic"
                  /\ pc' = "app_extracted"
                  /\ UNCHANGED pend
             ELSE /\ pend' = [status |-> 2, exc |-> "none"]
                  /\ pc' = "app_cleanup"
                  /\ UNCHANGED extracted
    /\ UNCHANGED <<argv, HAS_PIL, call, text, canvas, result, w, dir, inodes, rd>>

\* if not HAS_PIL: copy_file_atomic(extracted, output_path)
\* else: image = Image.open(extracted).convert("RGBA"); image = image.resize(...)
app_extracted ==
    /\ pc = "app_extracted"
    /\ IF ~HAS_PIL
       THEN /\ w' = [w EXCEPT ![MainWriter] = WCall("copy", RawIcon(extracted))]
            /\ pc' = "app_writing"
            /\ UNCHANGED <<canvas, pend>>
       ELSE \/ /\ canvas' = [RawIcon(extracted) EXCEPT !.width = KEY_SIZE,
                                                       !.height = KEY_SIZE]
               /\ pc' = "app_compose"
               /\ UNCHANGED <<pend, w>>
            \/ /\ \E e \in {"decode", "resize"} : pend' = [status |-> -1, exc |-> e]
               /\ pc' = "app_cleanup"
               /\ UNCHANGED <<canvas, w>>
    /\ UNCHANGED <<argv, HAS_PIL, call, text, extracted, env, result, dir, inodes, rd>>

\* if selected: border.rounded_rectangle(...); draw_badge(image, badge);
\* save_png_atomic(image, output_path).  The font is Arial Bold or, when that
\* cannot be loaded, the default font; measuring or drawing the badge text may
\* raise (a raster library that does not measure text in its default font).
app_compose ==
    /\ pc = "app_compose"
    /\ \/ /\ \E font \in Fonts :
                canvas' = draw_badge([canvas EXCEPT !.ring = call.selected],
                                     call.badge, font)
          /\ w' = [w EXCEPT ![MainWriter] = WCall("save", canvas')]
          /\ pc' = "app_writing"
          /\ UNCHANGED pend
       \/ /\ call.badge # ""
          /\ pend' = [status |-> -1, exc |-> "draw"]
          /\ pc' = "app_cleanup"
          /\ UNCHANGED <<canvas, w>>
    /\ UNCHANGED <<argv, HAS_PIL, call, text, extracted, env, result, dir, inodes, rd>>

\* The writer returned (return 0 follows) or raised.
app_written ==
    /\ pc = "app_writing"
    /\ WDone(MainWriter)
    /\ pend' = IF w[MainWriter].pc = "returned"
               THEN [status |-> 0, exc |-> "none"]
               ELSE [status |-> -1, exc |-> w[MainWriter].exc]
    /\ pc' = "app_cleanup"
    /\ UNCHANGED <<argv, HAS_PIL, call, text, canvas, extracted, env, result, w, dir, inodes, rd>>

\* Leaving the with block: TemporaryDirectory.cleanup() removes the directory,
\* and raises when it cannot.
app_cleanup ==
    /\ pc = "app_cleanup"
    /\ \/ result' = IF pend.exc = "none" THEN Return(pend.status) ELSE Raise(pend.exc)
       \/ result' = Raise("cleanup")
    /\ pc' = "done"
    /\ UNCHANGED <<argv, HAS_PIL, call, text, canvas, extracted, env, pend, w, dir, inodes, rd>>

----------------------------------------------------------------------------
(* render_control_mode(role, label, output_path) *)

role == argv[3]
label == argv[4]

\* A mutant of ctl_enter: the idle fast path is missing, so "idle" is rendered
\* like any other role.
ctl_enter_without_idle ==
    /\ pc = "ctl_enter"
    /\ IF ~HAS_PIL
       THEN /\ call' = [app_path |-> "", badge |-> "", selected |-> FALSE]
            /\ pc' = "app_mkdtemp"
            /\ UNCHANGED <<text, canvas, w>>
       ELSE /\ text' = IF label # "" THEN label ELSE default_control_label(role)
            /\ canvas' = BlackCanvas
            /\ pc' = "ctl_resolve"
            /\ UNCHANGED <<call, w>>
    /\ UNCHANGED <<argv, HAS_PIL, extracted, env, pend, result, dir, inodes, rd>>

\* if not HAS_PIL: return render_app_mode("", "", False, output_path)
\* if role == "idle": black canvas, save_png_atomic, return 0
\* text = label or default_control_label(role); image = Image.new(...)
ctl_enter ==
    /\ pc = "ctl_enter"
    /\ IF ~HAS_PIL
       THEN /\ call' = [app_path |-> "", badge |-> "", selected |-> FALSE]
            /\ pc' = "app_mkdtemp"
            /\ UNCHANGED <<text, canvas, w>>
       ELSE IF role = "idle"
       THEN /\ canvas' = BlackCanvas
            /\ w' = [w EXCEPT ![MainWriter] = WCall("save", canvas')]
            /\ pc' = "ctl_writing"
            /\ UNCHANGED <<call, text>>
       ELSE /\ text' = IF label # "" THEN label ELSE default_control_label(role)
            /\ canvas' = BlackCanvas
            /\ pc' = "ctl_resolve"
            /\ UNCHANGED <<call, w>>
    /\ UNCHANGED <<argv, HAS_PIL, extracted, env, pend, result, dir, inodes, rd>>

\* A mutant of resolve_control_icon_svg: an icon file found in neither place ends
\* the render with status 2, as a missing icon does in app mode.
resolve_control_icon_svg_strict ==
    /\ pc = "ctl_resolve"
    /\ IF role \notin DOMAIN CONTROL_ICON_FILES
       THEN /\ env' = [env EXCEPT !.svg = "not_in_table"]
            /\ pc' = "ctl_glyph"
            /\ UNCHANGED result
       ELSE \E r \in {"default_pack", "home_fallback", "missing"} :
               /\ env' = [env EXCEPT !.svg = r]
               /\ pc' = IF r = "missing" THEN "done" ELSE "ctl_paste"
               /\ result' = IF r = "missing" THEN Return(2) ELSE result
    /\ UNCHANGED <<argv, HAS_PIL, call, text, canvas, extracted, pend, w, dir, inodes, rd>>

\* icon_svg = resolve_control_icon_svg(role): the role's file name from the table,
\* looked for in the default icon pack, then under $HOME.
resolve_control_icon_svg ==
    /\ pc = "ctl_resolve"
    /\ IF role \notin DOMAIN CONTROL_ICON_FILES
       THEN /\ env' = [env EXCEPT !.svg = "not_in_table"]
            /\ pc' = "ctl_glyph"
       ELSE \E r \in {"default_pack", "home_fallback", "missing"} :
               /\ env' = [env EXCEPT !.svg = r]
               /\ pc' = IF r = "missing" THEN "ctl_glyph" ELSE "ctl_paste"
    /\ UNCHANGED <<argv, HAS_PIL, call, text, canvas, extracted, pend, result, w, dir, inodes, rd>>

\* What paste_svg_icon can meet.  "cleanup_failed": alpha_composite succeeded and
\* `return True` left the with block, whose TemporaryDirectory.cleanup() raised;
\* the `except Exception` around the block turns that into `return False`.
PasteOutcomes == {"mkdtemp_failed", "sips_failed", "png_missing", "decode_failed",
                  "composite_failed", "cleanup_failed", "ok"}

Composited(r) == r \in {"ok", "cleanup_failed"}

\* if icon_svg and paste_svg_icon(image, icon_svg): save_png_atomic(...); return 0
\* (paste_svg_icon's own `if not HAS_PIL` cannot fire: render_control_mode has
\* left for render_app_mode by then.)
paste_svg_icon ==
    /\ pc = "ctl_paste"
    /\ \E r \in PasteOutcomes :
          /\ env' = [env EXCEPT !.paste = r]
          /\ canvas' = IF Composited(r) THEN [canvas EXCEPT !.svg = TRUE] ELSE canvas
          /\ IF r = "ok"
             THEN /\ w' = [w EXCEPT ![MainWriter] = WCall("save", canvas')]
                  /\ pc' = "ctl_writing"
             ELSE /\ pc' = "ctl_glyph"
                  /\ UNCHANGED w
    /\ UNCHANGED <<argv, HAS_PIL, call, text, extracted, pend, result, dir, inodes, rd>>

\* The procedural glyph or text, then save_png_atomic(image, output_path).
\* Measuring or drawing the text may raise, as in draw_badge.
ctl_glyph ==
    /\ pc = "ctl_glyph"
    /\ \/ /\ canvas' = draw_fallback(canvas, role, text)
          /\ w' = [w EXCEPT ![MainWriter] = WCall("save", canvas')]
          /\ pc' = "ctl_writing"
          /\ UNCHANGED result
       \/ /\ role \notin GlyphRoles
          /\ result' = Raise("draw")
          /\ pc' = "done"
          /\ UNCHANGED <<canvas, w>>
    /\ UNCHANGED <<argv, HAS_PIL, call, text, extracted, env, pend, dir, inodes, rd>>

\* The writer returned (return 0 follows) or raised.
ctl_written ==
    /\ pc = "ctl_writing"
    /\ WDone(MainWriter)
    /\ result' = IF w[MainWriter].pc = "returned" THEN Return(0)
                 ELSE Raise(w[MainWriter].exc)
    /\ pc' = "done"
    /\ UNCHANGED <<argv, HAS_PIL, call, text, canvas, extracted, env, pend, w, dir, inodes, rd>>

Next ==
    \/ main
    \/ app_mkdtemp
    \/ extract_bundle
    \/ extract_generic
    \/ app_extracted
    \/ app_compose
    \/ app_written
    \/ app_cleanup
    \/ ctl_enter
    \/ resolve_control_icon_svg
    \/ paste_svg_icon
    \/ ctl_glyph
    \/ ctl_written
    \/ ensure_parent(MainWriter)
    \/ mktemp(MainWriter)
    \/ write(MainWriter)
    \/ os_replace(MainWriter)
    \/ finally(MainWriter)

Spec == Init /\ [][Next]_vars

----------------------------------------------------------------------------
(* What the claims speak of *)

\* The invocations main accepts, and the ones it rejects with status 1.
AppCall == Len(argv) >= 6 /\ argv[2] = "app"
ControlCall == Len(argv) >= 5 /\ argv[2] = "control"
Rejected == ~AppCall /\ ~ControlCall

\* The invocations whose argument count is exactly the documented one.
ExactAppCall == Len(argv) = 6 /\ argv[2] = "app"
ExactControlCall == Len(argv) = 5 /\ argv[2] = "control"

\* The destination directory as it was before the invocation.
DirBefore ==
    [n \in Names |-> IF n = OutName /\ env.had_out THEN OrigInode ELSE NoFile]
InodesBefore == [i \in Inodes |-> IF i = OrigInode THEN OrigFile ELSE EmptyFile]
Untouched == dir = DirBefore /\ inodes = InodesBefore

WriterExceptions == {"mkdir", "mktemp", "save", "copyfile", "replace"}

----------------------------------------------------------------------------
(* C1: with any number of writers on the same output path and a reader of  *)
(* that path, the output path never names a partially written file, every  *)
(* finished read has read a complete file (the one that was there before   *)
(* or one writer's), each writer's temporary file is its own, and the      *)
(* output path changes only by a writer's rename, to that writer's         *)
(* complete file.                                                          *)

C1_State ==
    /\ dir[OutName] # NoFile =>
          /\ Complete(inodes[dir[OutName]])
          /\ \/ dir[OutName] = OrigInode /\ inodes[OrigInode] = OrigFile
             \/ /\ dir[OutName] \in Writers
                /\ inodes[dir[OutName]].img = w[dir[OutName]].img
                /\ w[dir[OutName]].renamed
    /\ rd.state = "done" =>
          /\ rd.got = FileChunks
          /\ Complete(inodes[rd.ino])
    /\ \A p \in Writers :
          /\ w[p].temp_file => dir[TempName(p)] \in {NoFile, p}
          /\ w[p].pc \in {"write", "replace"} => dir[TempName(p)] = p
          /\ inodes[p].owner \in {NoFile, p}

C1_Step ==
    /\ dir'[OutName] # dir[OutName] =>
          \E p \in Writers :
             /\ w[p].pc = "replace"
             /\ w'[p].renamed
             /\ dir[TempName(p)] = p
             /\ dir'[OutName] = p
             /\ dir'[TempName(p)] = NoFile
    /\ dir[OutName] # NoFile => inodes'[dir[OutName]] = inodes[dir[OutName]]
    /\ rd.state = "open" => inodes'[rd.ino] = inodes[rd.ino]

\* C1: the state part holds in every reachable state and the step part of every
\* step: no reader of the output path ever observes a partially written file.
C1_AtomicWrite == [](C1_State) /\ [][C1_Step]_vars

\* A read that ended on one writer's file while another writer's temporary file
\* was partly written.
C1_Witness ==
    /\ rd.state = "done"
    /\ rd.ino \in Writers
    /\ \E q \in Writers :
          /\ q # rd.ino
          /\ w[q].pc = "write"
          /\ inodes[q].n > 0
          /\ ~Complete(inodes[q])

----------------------------------------------------------------------------
(* C2: when the output path held a file before the invocation and the      *)
(* invocation has not renamed its temporary file onto it (it failed at     *)
(* some step before or at the rename, or has not got there), the output    *)
(* path holds the original file, unchanged.                                *)

C2_FailedRenderKeepsOutput ==
    (env.had_out /\ ~w[MainWriter].renamed) =>
        /\ dir[OutName] = OrigInode
        /\ inodes[OrigInode] = OrigFile

\* An invocation that ended with its image save failing half way.
C2_Witness ==
    /\ pc = "done"
    /\ env.had_out
    /\ result.outcome = "raised"
    /\ result.exc = "save"
    /\ inodes[MainWriter].n > 0
    /\ dir[OutName] = OrigInode

----------------------------------------------------------------------------
(* C3, as claimed, in the part no exception decides: the status a          *)
(* well-formed control invocation returns is 0, whatever failed inside and *)
(* whether or not the raster library is available.                         *)

----------------------------------------------------------------------------
(* C4, as claimed: a well-formed app invocation returns 2 if and only if   *)
(* neither the bundle's icon nor the generic icon could be rasterized,     *)
(* then with the output path untouched, and otherwise it returns 0.        *)

C4_TwoOrZero ==
    (pc = "done" /\ ExactAppCall) =>
        /\ result = Return(2) <=> (env.bundle # "ok" /\ env.generic # "ok")
        /\ result = Return(2) => Untouched
        /\ result # Return(2) => result = Return(0)

----------------------------------------------------------------------------
(* C5, as claimed: an invocation whose mode is unknown or whose argument   *)
(* count is not exactly the documented one returns 1 and touches no file.  *)

C5_ExactCount ==
    (~ExactAppCall /\ ~ExactControlCall) =>
        /\ pc \in {"main", "done"}
        /\ pc = "done" => result = Return(1)
        /\ Untouched

(* C5, amended: an invocation with no mode, an unknown mode or too few     *)
(* arguments for its mode (fewer than 4 after "app", fewer than 3 after    *)
(* "control") returns 1 and touches no file; arguments beyond those are    *)
(* ignored, and such an invocation is rendered and never returns 1.        *)

C5_TooFewArguments ==
    /\ Rejected =>
          /\ pc \in {"main", "done"}
          /\ pc = "done" => result = Return(1)
          /\ Untouched
          /\ w[MainWriter] = WOff
    /\ (~Rejected /\ pc = "done") => result.status # 1

\* `app <bundlePath> <badge>` has been turned down.
C5_Witness ==
    /\ pc = "done"
    /\ Len(argv) = 4
    /\ argv[2] = "app"
    /\ result = Return(1)
    /\ env.had_out

----------------------------------------------------------------------------
(* C6, as claimed: every invocation ends by returning 0, 1 or 2; no        *)
(* failure of an intermediate step leaves it as an exception.              *)

C6_NoException ==
    pc = "done" =>
        /\ result.outcome = "returned"
        /\ result.status \in {0, 1, 2}

----------------------------------------------------------------------------
(* C7, as claimed: the file a well-formed `control idle` invocation writes *)
(* is the undecorated black canvas, raster library or not.                 *)

C7_IdleAlwaysBlack ==
    (ExactControlCall /\ role = "idle" /\ w[MainWriter].renamed) =>
        inodes[MainWriter].img = BlackCanvas

(* C7, amended: with the raster library available, a `control idle`        *)
(* invocation never looks for an icon and never draws: the only image it   *)
(* hands to the atomic writer and the only file it puts at the output path *)
(* is the 72x72 opaque black canvas, whatever the label.  (Without the     *)
(* library it writes the extracted generic icon or returns 2, as any other *)
(* role.)                                                                  *)

C7_IdleBlackWithLibrary ==
    (ControlCall /\ role = "idle" /\ HAS_PIL) =>
        /\ canvas = BlackCanvas
        /\ canvas.width = KEY_SIZE /\ canvas.height = KEY_SIZE
        /\ env.svg = "untried" /\ env.paste = "untried"
        /\ pc \notin {"ctl_resolve", "ctl_paste", "ctl_glyph"}
        /\ w[MainWriter].pc # "off" => w[MainWriter].img = BlackCanvas
        /\ w[MainWriter].renamed =>
              /\ dir[OutName] = MainWriter
              /\ inodes[MainWriter] = [owner |-> MainWriter, img |-> BlackCanvas,
                                       n |-> FileChunks]
        /\ pc = "done" => (result = Return(0) <=> w[MainWriter].renamed)

\* `control idle HELLO out.png` has written its file.
C7_Witness ==
    /\ pc = "done"
    /\ ControlCall
    /\ role = "idle"
    /\ label = "HELLO"
    /\ HAS_PIL
    /\ result = Return(0)
    /\ inodes[dir[OutName]].img = BlackCanvas

----------------------------------------------------------------------------
(* C8 *)

\* The box width draw_badge gives badge b in font f.
BoxWidth(b, f) == badge_width(textbbox_w(b, f, badge_font_size(b)))

DrawnBadges == Badges \ {""}

\* Badges whose glyphs all have the same advance (digits).
DigitBadges == {"1", "2", "3", "10"}

\* The badge values the specification's test list names.
SampleBadges == {"1", "2", "3", "AB"}

(* C8, as claimed: the box of a drawn badge is max(18, text width + 10)    *)
(* wide, at least 18, and no badge with more characters gets a narrower    *)
(* box (font size 11 for one character, 9 for more, same font).            *)

C8_MonotoneInLength ==
    canvas.badge.text # "" =>
        LET b == canvas.badge
        IN  /\ b.badge_w = Max(18, textbbox_w(b.text, b.font, b.font_size) + 10)
            /\ b.badge_w >= 18
            /\ \A b2 \in DrawnBadges :
                  len(b2) > len(b.text) => BoxWidth(b2, b.font) >= b.badge_w

(* C8, amended: the box of a drawn badge is max(18, measured text width +  *)
(* 10) wide, at least 18, with font size 11 for one character and 9 for    *)
(* more, and no badge whose text measures wider gets a narrower box.  By   *)
(* character count the width is non-decreasing among digit badges, among   *)
(* the badges "1", "2", "3", "AB", and in the fixed-width default font,    *)
(* but not in general: in Arial Bold "W" measures wider at size 11 than    *)
(* "ii" at size 9.                                                         *)

C8_BadgeWidth ==
    canvas.badge.text # "" =>
        LET b == canvas.badge
        IN  /\ b.font_size = (IF len(b.text) = 1 THEN 11 ELSE 9)
            /\ b.text_w = textbbox_w(b.text, b.font, b.font_size)
            /\ b.badge_w = Max(18, b.text_w + 10)
            /\ b.badge_w >= 18
            /\ b.badge_h = 18
            /\ b.x1 = KEY_SIZE - 4 /\ b.x0 = b.x1 - b.badge_w
            /\ \A b2 \in DrawnBadges :
                  textbbox_w(b2, b.font, badge_font_size(b2)) >= b.text_w
                      => BoxWidth(b2, b.font) >= b.badge_w
            /\ \A S \in {DigitBadges, SampleBadges} :
                  b.text \in S =>
                      \A b2 \in S : len(b2) > len(b.text)
                                       => BoxWidth(b2, b.font) >= b.badge_w
            /\ b.font = "default" =>
                  \A b2 \in DrawnBadges :
                      len(b2) > len(b.text) => BoxWidth(b2, b.font) >= b.badge_w

\* A two-character badge whose box is wider than the minimum, drawn and written.
C8_Witness ==
    /\ pc = "done"
    /\ canvas.badge.text = "AB"
    /\ canvas.badge.font = "Arial Bold"
    /\ canvas.badge.badge_w = 22
    /\ w[MainWriter].renamed
    /\ inodes[dir[OutName]].img.badge.badge_w = 22

----------------------------------------------------------------------------
(* C9, as claimed: in control mode with the raster library and a role      *)
(* other than idle, the canvas handed to the atomic writer carries the     *)
(* vector icon exactly when resolution, rasterization and paste succeeded, *)
(* never the vector icon together with a procedural glyph or text; when    *)
(* paste_svg_icon reported failure the canvas is the black canvas with the *)
(* white procedural glyph or text and nothing else; and the atomic write   *)
(* is of that canvas.                                                      *)

C9_IconOrFallback ==
    (ExactControlCall /\ HAS_PIL /\ role # "idle" /\ w[MainWriter].pc # "off") =>
        /\ canvas.svg <=> (env.svg \in {"default_pack", "home_fallback"}
                           /\ Composited(env.paste))
        /\ ~(canvas.svg /\ canvas.glyph.kind # "none")
        /\ env.paste # "ok" =>
              /\ canvas = draw_fallback(BlackCanvas, role, text)
              /\ canvas.glyph.color = White
        /\ env.paste = "ok" => canvas = [BlackCanvas EXCEPT !.svg = TRUE]
        /\ w[MainWriter].img = canvas

----------------------------------------------------------------------------
(* C10: when save_png_atomic / copy_file_atomic has ended, its temporary   *)
(* file is gone from the destination's directory after a successful rename *)
(* and after a failed save, copy or rename whose unlink succeeded; when    *)
(* the unlink failed, the file is still there and the function left with   *)
(* the exception of the save, copy or rename, not with the unlink's.  A    *)
(* call that never created the temporary file leaves none.                 *)

C10_TempFileRemoved ==
    \A p \in Writers :
        WDone(p) =>
            /\ w[p].renamed =>
                  /\ dir[TempName(p)] = NoFile
                  /\ w[p].pc = "returned"
                  /\ ~w[p].unlink_failed
            /\ (w[p].temp_file /\ ~w[p].unlink_failed) => dir[TempName(p)] = NoFile
            /\ w[p].unlink_failed =>
                  /\ w[p].temp_file
                  /\ dir[TempName(p)] = p
                  /\ w[p].pc = "raised"
                  /\ w[p].exc \in {"save", "copyfile", "replace"}
            /\ ~w[p].temp_file =>
                  /\ dir[TempName(p)] = NoFile
                  /\ w[p].exc \in {"mkdir", "mktemp"}
            /\ w[p].pc = "returned" <=> w[p].renamed

\* One writer failed in its rename and removed its temporary file, another failed
\* in its save and could not remove its own.
C10_Witness ==
    \E p, q \in Writers :
        /\ w[p].pc = "raised" /\ w[p].exc = "replace" /\ dir[TempName(p)] = NoFile
        /\ w[q].pc = "raised" /\ w[q].exc \in {"save", "copyfile"} /\ w[q].unlink_failed

====
